---- MODULE Spec2Model ----
(***************************************************************************)
(* Model of the phenocam data-processing application                       *)
(* (src/src/data_processing_phenocams_app/app.py, run()):                  *)
(*   - the QFLAG classification ladder of the Time Series tab,             *)
(*   - the data-prep tab (temporal resolution policy, per-image QFLAG),    *)
(*   - the per-day classification, the aggregation results and the         *)
(*     assembly of the annual table,                                       *)
(*   - the Confirm Flags dialog (components.py, quality_flags_management)  *)
(*     and the SAVE Record button, over the runs of a session,             *)
(*   - the flag frame and its reconciler (utils.py).                       *)
(* Weights are kept in hundredths (0.1 = 10, 0.5 = 50, 0.75 = 75,          *)
(* 1.0 = 1 = 100), so that they stay integers.                             *)
(***************************************************************************)
EXTENDS Integers, Sequences, FiniteSets, TLC

VARIABLES
    ladder,      \* SpecLadder: inputs and outcome of one pass through the ladder
    pc,          \* position of run(): "idle", "tab1", "tab3", "classified", ...
    year,        \* year returned by side_menu_options
    rois_list,   \* sorted(list(phenocam_rois.keys()))
    day_store,   \* the station's records of the year, per day of year
    selected,    \* the day and record selected in the side bar, with its externals
    ui,          \* the widget values of this run
    library,     \* behaviour of the aggregation library (key order, zero-sum result)
    session_state,
    default_temporal_resolution,
    is_per_image,
    qflag_dict,  \* data-prep tab: result of compute_qflag
    updates,     \* data-prep tab: the updates mapping
    QFLAG_dict,  \* Time Series tab: day -> roi -> QFLAG result
    results,     \* Time Series tab: day -> roi -> ordered parameters
    column_name, \* the local column_name of the table loops
    df,          \* the assembled table
    flags_yaml,  \* the penalty table get_phenocams_flags_dict() returns
    iflags_penalties_dict,  \* Time Series tab: the table handed to the aggregation
    shown,       \* what the run has shown: texts, toasts and warnings
    store_calls, \* the calls of station.update_record_by_catalog_guid of this run
    dialog,      \* the quality flags dialog
    run_no,      \* number of this run of run() in the session
    reconciler   \* SpecFlags: inputs and result of the flag frame functions

ladder_vars == <<ladder>>
run_vars == <<pc, year, rois_list, day_store, selected, ui, library, session_state,
              default_temporal_resolution, is_per_image, qflag_dict, updates,
              QFLAG_dict, results, column_name, df, flags_yaml,
              iflags_penalties_dict, shown, store_calls, dialog, run_no>>
vars == <<ladder, pc, year, rois_list, day_store, selected, ui, library, session_state,
          default_temporal_resolution, is_per_image, qflag_dict, updates,
          QFLAG_dict, results, column_name, df, flags_yaml,
          iflags_penalties_dict, shown, store_calls, dialog, run_no, reconciler>>

(***************************************************************************)
(* Bounds of the model.                                                    *)
(***************************************************************************)
MaxLadderRecords == 7   \* n_records of the ladder specification: 0..MaxLadderRecords
MaxClass == 4           \* solar elevation classes handed to the ladder: 0..MaxClass

MaxRecords == 2         \* records ready for products per day (Time Series tab)
MaxDayRecords == 3      \* records of the selected day (data-prep tab)
MaxGapHours == 1        \* hours of a mean time resolution: 0..MaxGapHours

\* table cells: numbers, booleans, strings of a number, text, None, NaN and pd.NA
Num(x) == [tag |-> "num", v |-> x]
Bool(b) == [tag |-> "bool", v |-> IF b THEN 1 ELSE 0]
StrOf(x) == [tag |-> "str", v |-> x]
Text(t) == [tag |-> "text", v |-> 0, s |-> t]
None == [tag |-> "None", v |-> 0]
NaN == [tag |-> "NaN", v |-> 0]
NA == [tag |-> "NA", v |-> 0]

\* the empty dictionary
EmptyMap == [x \in {} |-> None]

(***************************************************************************)
(* The classification ladder, app.py 467-507.                              *)
(***************************************************************************)
\* (3 if default_temporal_resolution else 2)
LowBoundaryMutant(dtr) == IF dtr THEN 2 ELSE 3
LowBoundary(dtr) == IF dtr THEN 3 ELSE 2

\* (6 if default_temporal_resolution else 4)
MidBoundary(dtr) == IF dtr THEN 6 ELSE 4

\* the condition of the i-th branch of the if/elif chain
BranchCondMutant(i, n, c, dtr) ==
    CASE i = 1 -> n < LowBoundary(dtr) /\ c = 1
      [] i = 2 -> n < LowBoundary(dtr) /\ c = 2
      [] i = 3 -> n < LowBoundary(dtr) /\ c = 3
      [] i = 4 -> (n > LowBoundary(dtr) /\ n < MidBoundary(dtr)) /\ c = 1
      [] i = 5 -> (n > LowBoundary(dtr) /\ n < MidBoundary(dtr)) /\ c = 2
      [] i = 6 -> (n > LowBoundary(dtr) /\ n < MidBoundary(dtr)) /\ c = 3
      [] i = 7 -> n >= MidBoundary(dtr) /\ c = 1
      [] i = 8 -> n >= MidBoundary(dtr) /\ c = 2
      [] i = 9 -> n >= MidBoundary(dtr) /\ c = 3
BranchCond(i, n, c, dtr) ==
    CASE i = 1 -> n < LowBoundary(dtr) /\ c = 1
      [] i = 2 -> n < LowBoundary(dtr) /\ c = 2
      [] i = 3 -> n < LowBoundary(dtr) /\ c = 3
      [] i = 4 -> (n >= LowBoundary(dtr) /\ n < MidBoundary(dtr)) /\ c = 1
      [] i = 5 -> (n >= LowBoundary(dtr) /\ n < MidBoundary(dtr)) /\ c = 2
      [] i = 6 -> (n >= LowBoundary(dtr) /\ n < MidBoundary(dtr)) /\ c = 3
      [] i = 7 -> n >= MidBoundary(dtr) /\ c = 1
      [] i = 8 -> n >= MidBoundary(dtr) /\ c = 2
      [] i = 9 -> n >= MidBoundary(dtr) /\ c = 3

\* the QFLAG assigned by the i-th branch
BranchQFLAG(i) ==
    CASE i = 1 -> 11 [] i = 2 -> 12 [] i = 3 -> 13
      [] i = 4 -> 21 [] i = 5 -> 22 [] i = 6 -> 23
      [] i = 7 -> 31 [] i = 8 -> 32 [] i = 9 -> 33

\* the weight assigned by the i-th branch, in hundredths
BranchWeightFlat(i, ipi) ==
    CASE i = 1 -> 10
      [] i = 2 -> 75
      [] i = 3 -> 75
      [] i = 4 -> 50 [] i = 5 -> 75 [] i = 6 -> 100
      [] i = 7 -> 75 [] i = 8 -> 100 [] i = 9 -> 100
BranchWeightSkewed(i, ipi) ==
    CASE i = 1 -> IF ~ipi THEN 10 ELSE 50
      [] i = 2 -> IF ~ipi THEN 50 ELSE 75
      [] i = 3 -> IF ~ipi THEN 75 ELSE 100
      [] i = 4 -> 50 [] i = 5 -> 75 [] i = 6 -> 100
      [] i = 7 -> 75 [] i = 8 -> 100 [] i = 9 -> 100
BranchWeight(i, ipi) ==
    CASE i = 1 -> IF ~ipi THEN 10 ELSE 50
      [] i = 2 -> IF ~ipi THEN 75 ELSE 75
      [] i = 3 -> IF ~ipi THEN 75 ELSE 100
      [] i = 4 -> 50 [] i = 5 -> 75 [] i = 6 -> 100
      [] i = 7 -> 75 [] i = 8 -> 100 [] i = 9 -> 100

\* the branches whose condition holds
BranchesHolding(n, c, dtr) == {i \in 1..9 : BranchCond(i, n, c, dtr)}

\* One pass through the if/elif/else chain: the first branch whose condition
\* holds assigns QFLAG and weight; the else branch raises ValueError.
LadderDefaulting(n, c, dtr, ipi) ==
    LET holding == BranchesHolding(n, c, dtr) IN
    IF holding = {}
    THEN [raised |-> FALSE, branch |-> 1, QFLAG |-> 11, weight |-> 10]
    ELSE LET i == CHOOSE j \in holding : \A k \in holding : j <= k IN
         [raised |-> FALSE, branch |-> i,
          QFLAG |-> BranchQFLAG(i), weight |-> BranchWeight(i, ipi)]
Ladder(n, c, dtr, ipi) ==
    LET holding == BranchesHolding(n, c, dtr) IN
    IF holding = {}
    THEN [raised |-> TRUE, branch |-> 0, QFLAG |-> 0, weight |-> 0]
    ELSE LET i == CHOOSE j \in holding : \A k \in holding : j <= k IN
         [raised |-> FALSE, branch |-> i,
          QFLAG |-> BranchQFLAG(i), weight |-> BranchWeight(i, ipi)]

(***************************************************************************)
(* Specification of the ladder alone: the inputs are drawn from bounded    *)
(* sets and one action runs the ladder on them.                            *)
(***************************************************************************)
LadderInputs ==
    [n_records : 0..MaxLadderRecords,
     solar_elevation_class : 0..MaxClass,
     default_temporal_resolution : BOOLEAN,
     is_per_image : BOOLEAN]

\* no dialog is open
DialogClosed == [open |-> FALSE]

ReconcilerUnused == reconciler = [in |-> EmptyMap, pc |-> "unused", out |-> EmptyMap]

RunIdle ==
    /\ pc = "idle"
    /\ flags_yaml = <<>>
    /\ iflags_penalties_dict = <<>>
    /\ shown = <<>>
    /\ store_calls = <<>>
    /\ dialog = DialogClosed
    /\ run_no = 0
    /\ year = 0
    /\ rois_list = <<>>
    /\ day_store = EmptyMap
    /\ selected = EmptyMap
    /\ ui = EmptyMap
    /\ library = EmptyMap
    /\ session_state = EmptyMap
    /\ default_temporal_resolution = FALSE
    /\ is_per_image = FALSE
    /\ qflag_dict = EmptyMap
    /\ updates = EmptyMap
    /\ QFLAG_dict = EmptyMap
    /\ results = EmptyMap
    /\ column_name = ""
    /\ df = EmptyMap

InitLadder ==
    /\ \E i \in LadderInputs : ladder = [in |-> i, pc |-> "call", out |-> EmptyMap]
    /\ RunIdle
    /\ ReconcilerUnused

RunLadder ==
    /\ ladder.pc = "call"
    /\ LET r == Ladder(ladder.in.n_records, ladder.in.solar_elevation_class,
                       ladder.in.default_temporal_resolution, ladder.in.is_per_image)
       IN ladder' = [ladder EXCEPT !.pc = IF r.raised THEN "ValueError" ELSE "assigned",
                                   !.out = r]
    /\ UNCHANGED <<run_vars, reconciler>>

NextLadder == RunLadder

SpecLadder == InitLadder /\ [][NextLadder]_vars

(***************************************************************************)
(* Python dictionaries keep insertion order: a dictionary is a sequence of *)
(* [key, value] entries with distinct keys.                                *)
(***************************************************************************)
DictKeys(d) == {d[i].key : i \in 1..Len(d)}

DictGet(d, k) == d[CHOOSE i \in 1..Len(d) : d[i].key = k].value

\* d[k] = v: an existing key keeps its place, a new key is appended
DictSet(d, k, v) ==
    IF k \in DictKeys(d)
    THEN [i \in 1..Len(d) |-> IF d[i].key = k THEN [key |-> k, value |-> v] ELSE d[i]]
    ELSE Append(d, [key |-> k, value |-> v])

\* {**a, **b}
RECURSIVE DictMerge(_, _)
DictMerge(a, b) ==
    IF b = <<>> THEN a ELSE DictMerge(DictSet(a, Head(b).key, Head(b).value), Tail(b))

\* Python's cell == 0 (True == 1 and False == 0 are numbers to ==)
EqualsZero(cell) == cell.tag \in {"num", "bool"} /\ cell.v = 0

(***************************************************************************)
(* The environment of one run of run(): the selection of the side bar, the *)
(* station's records, the widget values and the external routines.         *)
(***************************************************************************)
StationName == "Abisko"

\* the keys side_menu_options has written when run() goes on (components.py
\* 43-130), which is all a new session holds at app.py 147; of the values
\* only the station's name is kept
SideMenuKeys == {"station_name", "platforms_type", "platform_id", "table_name",
                 "records_count", "year", "doy"}
SideMenuSession ==
    [k \in SideMenuKeys |-> IF k = "station_name" THEN Text(StationName) ELSE None]

Years == {2000, 2023, 2024, 2100}

CandidateDays == {1, 60}

ROI_A == "ROI_01"
ROI_B == "ROI_02"
RoisLists == {<<>>, <<ROI_A>>, <<ROI_A, ROI_B>>}

Range(seq) == {seq[i] : i \in 1..Len(seq)}

\* results of utils.calculate_mean_time_resolution: a dictionary that may
\* lack 'hours' or 'minutes'
GapMinutes == {0, 30, 31}
MeanTimeResolutions ==
    [hours : 0..MaxGapHours, minutes : GapMinutes]
        \cup [hours : 0..MaxGapHours] \cup [minutes : GapMinutes] \cup {EmptyMap}

\* dict.get(key, default)
Get(d, k, default) == IF k \in DOMAIN d THEN d[k] ELSE default

(***************************************************************************)
(* Data-prep tab, app.py 159-386.                                          *)
(***************************************************************************)
\* records of the selected day: station.get_records_by_year_and_day_of_year
\* (app.py 169-173); the records of a day are numbered 1..n
DayRecords(day) ==
    IF day \in DOMAIN day_store
    THEN 1..(day_store[day].n_ready + day_store[day].n_other)
    ELSE {}

\* app.py 304-310: the temporal resolution policy
TemporalResolutionPolicyInclusive(n, meantime_resolution) ==
    IF n > 1 /\ (Get(meantime_resolution, "hours", 0) > 0
                 \/ Get(meantime_resolution, "minutes", 30) >= 30)
    THEN FALSE
    ELSE TRUE
TemporalResolutionPolicy(n, meantime_resolution) ==
    IF n > 1 /\ (Get(meantime_resolution, "hours", 0) > 0
                 \/ Get(meantime_resolution, "minutes", 30) > 30)
    THEN FALSE
    ELSE TRUE

\* app.py 318: records_dict={catalog_guid:record}
PerImageRecordsDictWholeDay(catalog_guid, records) == records
PerImageRecordsDict(catalog_guid, records) == {catalog_guid}

\* sstc_core compute_qflag: the classifier of section 4.3 over the records
\* handed to it
compute_qflag(records_dict, solar_elevation_class, dtr, ipi) ==
    LET r == Ladder(Cardinality(records_dict), solar_elevation_class, dtr, ipi) IN
    [raised |-> r.raised, QFLAG |-> r.QFLAG, weight |-> r.weight,
     default_temporal_resolution |-> dtr, is_per_image |-> ipi,
     n_records |-> Cardinality(records_dict)]

\* str(n) for 0 <= n < 100, and str(n).zfill(2)
Digits == <<"0", "1", "2", "3", "4", "5", "6", "7", "8", "9">>
PyStr(n) == IF n < 10 THEN Digits[n + 1] ELSE Digits[(n \div 10) + 1] \o Digits[(n % 10) + 1]
ZFill2(n) == IF n < 10 THEN "0" \o PyStr(n) ELSE PyStr(n)

\* app.py 324-331: the entries of updates written before the meantime string
\* (the sun angles are opaque numbers and are left out)
UpdatesBeforeMeantime(has_snow_presence, solar_elevation_class, q) ==
    <<[key |-> "has_snow_presence", value |-> Bool(has_snow_presence)],
      [key |-> "solar_elevation_class", value |-> Num(solar_elevation_class)],
      [key |-> "QFLAG_image_value", value |-> Num(q.QFLAG)],
      [key |-> "QFLAG_image_weight", value |-> Num(q.weight)],
      [key |-> "default_temporal_resolution", value |-> Bool(q.default_temporal_resolution)]>>

\* app.py 332
MeantimeString(m) == ZFill2(m["hours"]) \o ":" \o ZFill2(m["minutes"]) \o ":00"

\* app.py 344: the text after the label '**TIME RESOLUTION [HH:MM]**: '
TimeResolutionText(m) == ZFill2(m["hours"]) \o ":" \o ZFill2(m["hours"])

\* str(True), str(False)
PyStrBool(b) == IF b THEN "True" ELSE "False"

\* d[k] = v on a mapping
MapSet(d, k, v) == [x \in DOMAIN d \cup {k} |-> IF x = k THEN v ELSE d[x]]

\* the keys of a record that start with 'flag_' and their values in the
\* store (utils.extract_keys_with_prefix, components.py 168)
FlagNames == {"flag_haze", "flag_clouds"}
FlagValues == {None, Bool(FALSE), Bool(TRUE)}
FlagMappings == UNION {[S -> FlagValues] : S \in SUBSET FlagNames}

\* app.py 358-359: `if st.button('Confirm Flags')` opens the dialog, whose
\* body runs to its own button (components.py 168-175); the Confirm button of
\* a dialog that has just been opened is not pressed
DialogOpenings ==
    IF ui.confirm_flags
    THEN {[open |-> TRUE, catalog_guid |-> selected.catalog_guid, flags_dict |-> X,
           flags_confirmed |-> b, presses |-> 0, edited |-> EmptyMap,
           updated_flags |-> EmptyMap]
            : X \in FlagMappings, b \in BOOLEAN}
    ELSE {DialogClosed}

\* app.py 375: `if confirm_ready:`
SaveAlways(confirm_ready) == TRUE
SaveRequested(confirm_ready) == confirm_ready

\* the answers of station.update_record_by_catalog_guid (app.py 382-385)
SaveOutcomes == IF SaveRequested(ui.confirm_ready) THEN BOOLEAN ELSE {FALSE}

\* app.py 386
SaveToastOfSuccess(is_saved) == [kind |-> "toast", text |-> "updates saved: True"]
SaveToast(is_saved) == [kind |-> "toast", text |-> "updates saved: " \o PyStrBool(is_saved)]

TabUnchanged ==
    UNCHANGED <<ladder, year, rois_list, day_store, selected, ui, library, flags_yaml,
                run_no, reconciler>>

DataPrep ==
    /\ pc = "tab1"
    /\ TabUnchanged
    /\ UNCHANGED <<is_per_image, QFLAG_dict, results, column_name, df,
                   iflags_penalties_dict>>
    /\ LET records == DayRecords(selected.day)
           m == selected.meantime_resolution
           dtr == TemporalResolutionPolicy(Cardinality(records), m)
           q == compute_qflag(PerImageRecordsDict(selected.catalog_guid, records),
                              selected.solar_elevation_class, dtr, TRUE)
           \* app.py 279
           snow_state ==
               IF ui.has_snow_presence
               THEN [session_state EXCEPT ![StationName] =
                         [k \in DOMAIN @ \cup {"enable_all"} |->
                             IF k = "enable_all" THEN ui.enable_all ELSE @[k]]]
               ELSE session_state
       IN
       IF records = {}
       THEN \* app.py 176-178
            /\ pc' = "returned"
            /\ UNCHANGED <<session_state, default_temporal_resolution, qflag_dict,
                           updates, shown, store_calls, dialog>>
       ELSE IF StationName \notin DOMAIN session_state
       THEN \* app.py 270
            /\ pc' = "KeyError_station_name"
            /\ UNCHANGED <<session_state, default_temporal_resolution, qflag_dict,
                           updates, shown, store_calls, dialog>>
       ELSE /\ default_temporal_resolution' = dtr
            /\ IF q.raised
               THEN /\ pc' = "ValueError_compute_qflag"
                    /\ session_state' = snow_state
                    /\ UNCHANGED <<qflag_dict, updates, shown, store_calls, dialog>>
               ELSE /\ qflag_dict' = q
                    /\ IF {"hours", "minutes"} \subseteq DOMAIN m
                       THEN \E opening \in DialogOpenings, is_saved \in SaveOutcomes :
                            \* app.py 324-332
                            \E written \in {Append(
                                   UpdatesBeforeMeantime(ui.has_snow_presence,
                                       selected.solar_elevation_class, q),
                                   [key |-> "meantime_resolution",
                                    value |-> Text(MeantimeString(m))])} :
                            \* app.py 377
                            \E saved \in {IF SaveRequested(ui.confirm_ready)
                                           THEN DictSet(written, "is_ready_for_products_use",
                                                        Bool(ui.is_ready_for_products_use))
                                           ELSE written} :
                            /\ updates' = saved
                            \* app.py 344 and 386
                            /\ shown' = <<[kind |-> "write", text |-> TimeResolutionText(m)]>>
                                   \o (IF SaveRequested(ui.confirm_ready)
                                       THEN <<SaveToast(is_saved)>> ELSE <<>>)
                            \* app.py 358-359, components.py 173
                            /\ dialog' = opening
                            /\ session_state' =
                                   IF opening.open
                                   THEN MapSet(snow_state, "flags_confirmed",
                                               Bool(opening.flags_confirmed))
                                   ELSE snow_state
                            \* app.py 380-385 (the snow and ROI sum entries of
                            \* the mapping are left out)
                            /\ store_calls' =
                                   IF SaveRequested(ui.confirm_ready)
                                   THEN Append(store_calls,
                                               [run |-> run_no, by |-> "SAVE Record",
                                                catalog_guid |-> selected.catalog_guid,
                                                updates |-> saved, result |-> is_saved])
                                   ELSE store_calls
                            /\ pc' = "tab3"
                       ELSE /\ updates' = UpdatesBeforeMeantime(ui.has_snow_presence,
                                              selected.solar_elevation_class, q)
                            /\ pc' = "KeyError_meantime_resolution"
                            /\ session_state' = snow_state
                            /\ UNCHANGED <<shown, store_calls, dialog>>

(***************************************************************************)
(* Time Series tab, app.py 389-602.                                        *)
(* The days of year are the keys '001'..'366' of the station's records;    *)
(* they are kept as the numbers int() gives for them (app.py 557), whose   *)
(* order is the order sorted() gives the zero-padded strings.              *)
(***************************************************************************)
RECURSIVE SortedSeq(_)
SortedSeq(S) ==
    IF S = {} THEN <<>>
    ELSE LET m == CHOOSE x \in S : \A y \in S : x <= y IN <<m>> \o SortedSeq(S \ {m})

\* app.py 414-416: the days that have records ready for products, sorted
AvailableDays == SortedSeq({d \in DOMAIN day_store : day_store[d].n_ready > 0})

\* app.py 514-518
QFLAGEntry(q, dtr, ipi) ==
    <<[key |-> "QFLAG_value", value |-> Num(q.QFLAG)],
      [key |-> "QFLAG_weight", value |-> Num(q.weight)],
      [key |-> "QFLAG_default_temporal_resolution", value |-> Bool(dtr)],
      [key |-> "QFLAG_is_per_image", value |-> Bool(ipi)]>>

\* app.py 449-518: the loop over the ROIs of day k; a ValueError ends it
RECURSIVE ClassifyRoisCountingPerRoi(_, _, _, _, _)
RECURSIVE ClassifyRois(_, _, _, _, _)
ClassifyRoisCountingPerRoi(k, rois, acc, dtr, ipi) ==
    IF rois = <<>> THEN [raised |-> FALSE, map |-> acc]
    ELSE LET n_records == day_store[k].n_ready + Len(rois) - 1
             q == Ladder(n_records, day_store[k].solar_elevation_class, dtr, ipi)
         IN IF q.raised
            THEN [raised |-> TRUE, map |-> acc]
            ELSE ClassifyRoisCountingPerRoi(k, Tail(rois),
                              acc @@ (Head(rois) :> QFLAGEntry(q, dtr, ipi)), dtr, ipi)
ClassifyRois(k, rois, acc, dtr, ipi) ==
    IF rois = <<>> THEN [raised |-> FALSE, map |-> acc]
    ELSE LET n_records == day_store[k].n_ready
             q == Ladder(n_records, day_store[k].solar_elevation_class, dtr, ipi)
         IN IF q.raised
            THEN [raised |-> TRUE, map |-> acc]
            ELSE ClassifyRois(k, Tail(rois),
                              acc @@ (Head(rois) :> QFLAGEntry(q, dtr, ipi)), dtr, ipi)

\* app.py 446-518: the loop over the days
RECURSIVE ClassifyLoop(_, _, _, _)
ClassifyLoop(days, acc, dtr, ipi) ==
    IF days = <<>> THEN [raised |-> FALSE, map |-> acc]
    ELSE LET r == ClassifyRois(Head(days), rois_list, EmptyMap, dtr, ipi)
             next == acc @@ (Head(days) :> r.map)
         IN IF r.raised
            THEN [raised |-> TRUE, map |-> next]
            ELSE ClassifyLoop(Tail(days), next, dtr, ipi)

\* app.py 395: the table handed on when the toggle is off
ZeroPenaltiesOfEnabled(table) ==
    LET enabled == SelectSeq(table, LAMBDA e : DictGet(e.value, "value") = Bool(TRUE)) IN
    [i \in 1..Len(enabled) |->
        [key |-> enabled[i].key,
         value |-> <<[key |-> "value", value |-> DictGet(enabled[i].value, "value")],
                     [key |-> "penality_value", value |-> Num(0)]>>]]
ZeroPenalties(table) ==
    [i \in 1..Len(table) |->
        [key |-> table[i].key,
         value |-> <<[key |-> "value", value |-> DictGet(table[i].value, "value")],
                     [key |-> "penality_value", value |-> Num(0)]>>]]

\* app.py 390-395
PenaltiesHandedOn(apply_weights, table) ==
    IF ~apply_weights THEN ZeroPenalties(table) ELSE table

ClassifyDays ==
    /\ pc = "tab3"
    /\ TabUnchanged
    /\ UNCHANGED <<session_state, qflag_dict, updates, results, column_name, df,
                   shown, store_calls, dialog>>
    /\ iflags_penalties_dict' = PenaltiesHandedOn(ui.apply_weights, flags_yaml)
    /\ is_per_image' = FALSE                    \* app.py 442
    /\ default_temporal_resolution' = FALSE     \* app.py 443
    /\ LET r == ClassifyLoop(AvailableDays, EmptyMap, FALSE, FALSE) IN
       /\ QFLAG_dict' = r.map
       /\ pc' = IF r.raised THEN "ValueError" ELSE "classified"

\* the keys of the dictionary phenocams.process_records_for_roi returns
StatKeys == {"GCC_value", "mean_red"}
LibraryKeys == StatKeys \cup {"weights_used"}

\* the aggregation library: the order of the keys of its result, and what it
\* reports for a statistic when the weights of an ROI sum to zero
LibraryVariants ==
    {[key_order |-> <<"GCC_value", "mean_red", "weights_used">>, zero_sum |-> "zero"],
     [key_order |-> <<"weights_used", "GCC_value", "mean_red">>, zero_sum |-> "zero"],
     [key_order |-> <<"mean_red", "weights_used", "GCC_value">>, zero_sum |-> "none"]}

\* a statistic of an ROI with a positive sum of weights, in hundredths
StatValue(key) == IF key = "GCC_value" THEN 35 ELSE 120

\* phenocams.process_records_for_roi (app.py 539-545): weights_used is kept as
\* the sum of the combined weights of the contributing records
process_records_for_roi(k, roi) ==
    LET zero == roi \in day_store[k].zero_weight_rois
        value(key) ==
            IF key = "weights_used" THEN Num(IF zero THEN 0 ELSE 1)
            ELSE IF ~zero THEN Num(StatValue(key))
            ELSE IF library.zero_sum = "zero" THEN Num(0) ELSE None
    IN [i \in 1..Len(library.key_order) |->
            [key |-> library.key_order[i], value |-> value(library.key_order[i])]]

\* app.py 533-546
ProcessResults ==
    /\ pc = "classified"
    /\ TabUnchanged
    /\ UNCHANGED <<session_state, default_temporal_resolution, is_per_image,
                   qflag_dict, updates, QFLAG_dict, column_name, df,
                   iflags_penalties_dict, shown, store_calls, dialog>>
    /\ results' = [doy \in Range(AvailableDays) |->
                     [roi \in Range(rois_list) |->
                        DictMerge(process_records_for_roi(doy, roi), QFLAG_dict[doy][roi])]]
    /\ pc' = "processed"

(***************************************************************************)
(* Assembly of the annual table, app.py 551-602.                           *)
(***************************************************************************)
\* app.py 551
DaysInYearJulian(y) == IF y % 4 = 0 THEN 366 ELSE 365
DaysInYear(y) == IF y % 4 = 0 /\ (y % 100 # 0 \/ y % 400 = 0) THEN 366 ELSE 365

QFLAGKeys == {"QFLAG_value", "QFLAG_weight", "QFLAG_default_temporal_resolution",
              "QFLAG_is_per_image"}

\* 'QFLAG_' in name and name not in ['QFLAG_weight'] (app.py 562, 570)
IsQFLAGColumn(name) == name \in QFLAGKeys /\ name \notin {"QFLAG_weight"}

\* name not in ['weights_used', 'QFLAG_weight', 'iflag_disable_for_processing']
IsStatistic(name) == name \notin {"weights_used", "QFLAG_weight", "iflag_disable_for_processing"}

\* f"L3_{roi}_{param_name}"
L3Column(roi, name) == "L3_" \o roi \o "_" \o name

\* app.py 560-567: the parameters of one ROI are stored in the row of the day
RECURSIVE StoreParameters(_, _, _, _)
StoreParameters(row, cn, roi, parameters) ==
    IF parameters = <<>> THEN [row |-> row, column_name |-> cn]
    ELSE LET p == Head(parameters) IN
         IF IsQFLAGColumn(p.key)
         THEN StoreParameters(DictSet(row, p.key, p.value), p.key, roi, Tail(parameters))
         ELSE IF IsStatistic(p.key)
         THEN StoreParameters(DictSet(row, L3Column(roi, p.key), p.value),
                              L3Column(roi, p.key), roi, Tail(parameters))
         ELSE StoreParameters(row, cn, roi, Tail(parameters))

\* app.py 569-576: every field writes None to the column column_name names,
\* which only a statistic's field sets anew
RECURSIVE NullParameters(_, _, _, _)
NullParameters(row, cn, roi, fields) ==
    IF fields = <<>> THEN [row |-> row, column_name |-> cn]
    ELSE LET field == Head(fields).key
             name == IF IsQFLAGColumn(field) THEN cn
                     ELSE IF IsStatistic(field) THEN L3Column(roi, field)
                     ELSE cn
         IN NullParameters(DictSet(row, name, None), name, roi, Tail(fields))

\* app.py 568: roi_ts_dict[doy][f"L3_{roi}_GCC_value"] == 0
EqualsZeroIsNone(cell) == cell.tag = "None"
GCCIsZero(cell) == EqualsZero(cell)

\* app.py 558-576: the ROIs of one day
RECURSIVE StoreRois(_, _, _, _)
StoreRois(row, cn, rois, day_results) ==
    IF rois = <<>> THEN [row |-> row, column_name |-> cn]
    ELSE LET roi == Head(rois)
             parameters == day_results[roi]
             stored == StoreParameters(row, cn, roi, parameters)
             after == IF GCCIsZero(DictGet(stored.row, L3Column(roi, "GCC_value")))
                      THEN NullParameters(stored.row, stored.column_name, roi, parameters)
                      ELSE stored
         IN StoreRois(after.row, after.column_name, Tail(rois), day_results)

\* app.py 556-576: the days of results
RECURSIVE StoreDays(_, _, _)
StoreDays(days, dict, cn) ==
    IF days = <<>> THEN [dict |-> dict, column_name |-> cn]
    ELSE LET doy == Head(days)
             r == StoreRois(dict[doy], cn, rois_list, results[doy])
         IN StoreDays(Tail(days), [dict EXCEPT ![doy] = r.row], r.column_name)

\* pd.DataFrame.from_dict(roi_ts_dict, orient='index'): the columns in the
\* order in which the rows name them first
RECURSIVE FrameColumns(_, _, _)
FrameColumns(days, dict, acc) ==
    IF days = <<>> THEN acc
    ELSE LET row == dict[Head(days)]
             new == SelectSeq([i \in 1..Len(row) |-> row[i].key],
                              LAMBDA c : c \notin Range(acc))
         IN FrameColumns(Tail(days), dict, acc \o new)

\* app.py 587-594
xcols == <<"year", "day_of_year", "QFLAG_value", "QFLAG_default_temporal_resolution",
           "QFLAG_is_per_image">>

\* app.py 598: reindex(range(1, days_in_year + 1))
ReindexKept(index, days_in_year) == index
Reindex(index, days_in_year) == [i \in 1..days_in_year |-> i]

\* fillna(pd.NA) and replace({pd.NA: None}) (app.py 598, 602)
FillNA(cell) == IF cell.tag \in {"None", "NaN", "NA"} THEN NA ELSE cell
ReplaceNA(cell) == IF cell.tag = "NA" THEN None ELSE cell

\* the cell of a column in the row of a day, after reindex, fillna and replace:
\* row is the day's dictionary, empty for a day the frame did not hold
FinalCell(y, day, c, row) ==
    IF c = "year" THEN StrOf(y)
    ELSE IF c = "day_of_year" THEN Num(day)
    ELSE IF c \in DictKeys(row) THEN ReplaceNA(FillNA(DictGet(row, c)))
    ELSE ReplaceNA(FillNA(NaN))

\* The table is kept as its index, its columns, the rows of the days the frame
\* held before reindex, and the row reindex adds for every other label of the
\* index (whose day_of_year is the label).
AssembleTable ==
    /\ pc = "processed"
    /\ TabUnchanged
    /\ UNCHANGED <<session_state, default_temporal_resolution, is_per_image,
                   qflag_dict, updates, QFLAG_dict, results,
                   iflags_penalties_dict, shown, store_calls, dialog>>
    /\ \E days_in_year \in {DaysInYear(year)} :
       \* roi_ts_dict = {day: {} for day in range(1, days_in_year + 1)}; only
       \* the days of results are written to
       \E stored \in {StoreDays(AvailableDays, [day \in Range(AvailableDays) |-> <<>>],
                                column_name)} :
       \* the frame holds the days whose dictionary is not empty
       \E labels \in {SelectSeq(AvailableDays, LAMBDA day : stored.dict[day] # <<>>)} :
       \E columns \in {FrameColumns(labels, stored.dict, <<>>)} :
       \E ordered_columns \in
              {xcols \o SelectSeq(columns, LAMBDA c : c \notin Range(xcols))} :
       /\ column_name' = stored.column_name
       /\ IF Len(labels) > 0
          THEN IF Range(xcols) \ {"year", "day_of_year"} \subseteq Range(columns)
               THEN /\ df' = [index |-> Reindex(labels, days_in_year),
                              columns |-> ordered_columns,
                              rows |-> [day \in Range(labels) |->
                                          [c \in Range(ordered_columns) |->
                                              FinalCell(year, day, c, stored.dict[day])]],
                              missing |-> [c \in Range(ordered_columns) |->
                                              FinalCell(year, 0, c, <<>>)]]
                    /\ pc' = "done"
               ELSE /\ df' = [index |-> labels, columns |-> columns,
                              rows |-> EmptyMap, missing |-> EmptyMap]
                    /\ pc' = "KeyError_columns"
          ELSE /\ df' = [index |-> <<>>, columns |-> <<>>,
                         rows |-> EmptyMap, missing |-> EmptyMap]
               /\ pc' = "done"

\* the row of the table with label day
TableRow(day) ==
    IF day \in DOMAIN df.rows THEN df.rows[day]
    ELSE [df.missing EXCEPT !["day_of_year"] = Num(day)]

(***************************************************************************)
(* One run of run(): the data-prep tab, then the Time Series tab.          *)
(***************************************************************************)
Next == DataPrep \/ ClassifyDays \/ ProcessResults \/ AssembleTable

LadderUnused == ladder = [in |-> EmptyMap, pc |-> "unused", out |-> EmptyMap]

RunStart ==
    /\ LadderUnused
    /\ pc = "tab1"
    /\ default_temporal_resolution = FALSE
    /\ is_per_image = FALSE
    /\ qflag_dict = EmptyMap
    /\ updates = <<>>
    /\ QFLAG_dict = EmptyMap
    /\ results = EmptyMap
    /\ column_name = ""
    /\ df = EmptyMap
    /\ iflags_penalties_dict = <<>>
    /\ shown = <<>>
    /\ store_calls = <<>>
    /\ dialog = DialogClosed
    /\ run_no = 1
    /\ ReconcilerUnused

\* the penalty tables phenocams.get_default_phenocam_flags may load: flag
\* name -> {value, penalty}, the penalty in hundredths under either spelling
\* of its key
FlagsYaml(penalty_key, haze_value) ==
    <<[key |-> "iflag_haze",
       value |-> <<[key |-> "value", value |-> Bool(haze_value)],
                   [key |-> penalty_key, value |-> Num(50)]>>],
      [key |-> "iflag_clouds",
       value |-> <<[key |-> "value", value |-> Bool(TRUE)],
                   [key |-> penalty_key, value |-> Num(100)]>>]>>
FlagsYamls ==
    {<<>>} \cup {FlagsYaml(k, b) : k \in {"penalty_value", "penality_value"}, b \in BOOLEAN}

\* the mean time resolutions of the records of a day that are ready for products
DayGaps(n) ==
    IF n = 1 THEN {[hours |-> 0, minutes |-> 0]}
    ELSE {[hours |-> 0, minutes |-> 10], [hours |-> 1, minutes |-> 0]}

\* Time Series specification: a day has records ready for products with a
\* class the ladder knows (ROIs with a zero sum of weights on a day of one
\* record), or one such record with another class, or a single record that is
\* not ready
DayDataTS(rois) ==
    {[n_ready |-> 0, n_other |-> 1, solar_elevation_class |-> 1,
      mean_time_resolution |-> [hours |-> 0, minutes |-> 0], zero_weight_rois |-> {}]}
    \cup [n_ready : 1..MaxRecords, n_other : {0}, solar_elevation_class : 4..MaxClass,
          mean_time_resolution : DayGaps(1), zero_weight_rois : {{}}]
    \cup UNION {
        [n_ready : {n}, n_other : {0}, solar_elevation_class : 1..3,
         mean_time_resolution : DayGaps(n),
         zero_weight_rois : IF n = 1 THEN SUBSET Range(rois) ELSE {{}}]
        : n \in 1..MaxRecords}

Init ==
    /\ RunStart
    /\ year \in Years
    /\ rois_list \in RoisLists
    /\ library \in LibraryVariants
    /\ \E S \in SUBSET CandidateDays : day_store \in [S -> DayDataTS(rois_list)]
    /\ selected = [day |-> IF DOMAIN day_store = {} THEN 1
                           ELSE CHOOSE d \in DOMAIN day_store :
                                    \A e \in DOMAIN day_store : d <= e,
                   catalog_guid |-> 1,
                   solar_elevation_class |-> 2,
                   meantime_resolution |-> [hours |-> 0, minutes |-> 0]]
    /\ ui = [has_snow_presence |-> FALSE, enable_all |-> FALSE,
             confirm_flags |-> FALSE, confirm_ready |-> FALSE,
             is_ready_for_products_use |-> TRUE, apply_weights |-> TRUE]
    /\ session_state = (StationName :> EmptyMap)
    /\ flags_yaml = FlagsYaml("penalty_value", TRUE)

Spec == Init /\ [][Next]_vars

(***************************************************************************)
(* Data-prep specification: one day, the selected one, with every mean     *)
(* time resolution, class, widget value and session state.                 *)
(***************************************************************************)
InitPrep ==
    /\ RunStart
    /\ year = 2024
    /\ rois_list = <<ROI_A>>
    /\ library = [key_order |-> <<"GCC_value", "mean_red", "weights_used">>,
                  zero_sum |-> "zero"]
    /\ \E ready \in 0..MaxDayRecords, other \in 0..1 :
          day_store = IF ready + other = 0 THEN EmptyMap
                      ELSE (1 :> [n_ready |-> ready, n_other |-> other,
                                  solar_elevation_class |-> 2,
                                  mean_time_resolution |-> [hours |-> 0, minutes |-> 0],
                                  zero_weight_rois |-> {}])
    /\ selected \in [day : {1},
                     catalog_guid : IF DayRecords(1) = {} THEN {1} ELSE DayRecords(1),
                     solar_elevation_class : 1..MaxClass,
                     meantime_resolution : MeanTimeResolutions]
    /\ ui \in [has_snow_presence : BOOLEAN, enable_all : BOOLEAN,
                confirm_flags : {FALSE}, confirm_ready : {FALSE},
                is_ready_for_products_use : {TRUE}, apply_weights : {TRUE}]
    /\ session_state \in {SideMenuSession, MapSet(SideMenuSession, StationName, EmptyMap)}
    /\ flags_yaml = FlagsYaml("penalty_value", TRUE)

SpecPrep == InitPrep /\ [][Next]_vars

(***************************************************************************)
(* Penalties specification: one day and one ROI, with every penalty table  *)
(* and both positions of the 'Apply penalties for weighting' toggle.       *)
(***************************************************************************)
InitPenalties ==
    /\ RunStart
    /\ year = 2024
    /\ rois_list = <<ROI_A>>
    /\ library = [key_order |-> <<"GCC_value", "mean_red", "weights_used">>,
                  zero_sum |-> "zero"]
    /\ \E ready \in 1..MaxDayRecords :
          day_store = (1 :> [n_ready |-> ready, n_other |-> 0,
                             solar_elevation_class |-> 2,
                             mean_time_resolution |-> [hours |-> 0, minutes |-> 0],
                             zero_weight_rois |-> {}])
    /\ selected \in [day : {1}, catalog_guid : DayRecords(1),
                     solar_elevation_class : 1..3,
                     meantime_resolution : {[hours |-> 0, minutes |-> 10]}]
    /\ ui \in [has_snow_presence : {FALSE}, enable_all : {FALSE},
               confirm_flags : {FALSE}, confirm_ready : {FALSE},
               is_ready_for_products_use : {TRUE}, apply_weights : BOOLEAN]
    /\ session_state = (StationName :> EmptyMap)
    /\ flags_yaml \in FlagsYamls

SpecPenalties == InitPenalties /\ [][Next]_vars

(***************************************************************************)
(* The Confirm button of the quality flags dialog, components.py 157-188   *)
(* (the same steps are in src/app.py 172-199, without the session state).  *)
(* A press of Confirm runs the body of the dialog again, and nothing else  *)
(* of run().                                                               *)
(***************************************************************************)
MaxConfirms == 1        \* presses of Confirm in one dialog
MaxRuns == 2            \* runs of run() in a session

\* bool(x) of a stored value
Truthy(cell) == cell.tag # "None" /\ cell.v # 0

\* components.py 169-171: the Status column the editor starts from
StatusColumn(flags_dict) == [k \in DOMAIN flags_dict |-> Bool(Truthy(flags_dict[k]))]

\* the editor's frame after the user toggled the check boxes of `toggled`
EditedStatus(flags_dict, toggled) ==
    [k \in DOMAIN flags_dict |->
        IF k \in toggled THEN Bool(~Truthy(flags_dict[k])) ELSE StatusColumn(flags_dict)[k]]

\* sstc_core utils.have_values_changed: the keys whose boolean value differs,
\* with their new value
have_values_changed(old, new) ==
    [k \in {x \in DOMAIN new \cap DOMAIN old : Truthy(old[x]) # Truthy(new[x])} |-> new[k]]

\* components.py 177-178
UpdatedFlagsWhole(flags_dict, updated_flags_dict) ==
    MapSet(updated_flags_dict, "flags_confirmed", Bool(TRUE))
UpdatedFlags(flags_dict, updated_flags_dict) ==
    MapSet(have_values_changed(flags_dict, updated_flags_dict), "flags_confirmed", Bool(TRUE))

\* components.py 182: `if updated_flags:`, the truth value of a dict
HasFlagChanges(updated_flags) == DOMAIN updated_flags \ {"flags_confirmed"} # {}
DictTruthy(updated_flags) == DOMAIN updated_flags # {}

\* components.py 184-188
FlagsToast == [kind |-> "toast", text |-> "Flags values updated and saved"]
FlagsWarning == [kind |-> "warning", text |-> "Flags not updated"]

\* the positions at which a run of run() has ended
RunFinished == {"done", "returned", "ValueError", "KeyError_columns",
                "KeyError_station_name", "ValueError_compute_qflag",
                "KeyError_meantime_resolution"}

SessionUnchanged ==
    UNCHANGED <<ladder, year, rois_list, day_store, library, flags_yaml, reconciler>>

QualityFlagsConfirm ==
    /\ pc \in RunFinished
    /\ dialog.open
    /\ dialog.presses < MaxConfirms
    /\ SessionUnchanged
    /\ UNCHANGED <<pc, selected, ui, run_no, default_temporal_resolution, is_per_image,
                   qflag_dict, updates, QFLAG_dict, results, column_name, df,
                   iflags_penalties_dict>>
    /\ \E toggled \in SUBSET DOMAIN dialog.flags_dict, has_updated \in BOOLEAN :
       \* components.py 176
       \E updated_flags_dict \in {EditedStatus(dialog.flags_dict, toggled)} :
       \E updated_flags \in {UpdatedFlags(dialog.flags_dict, updated_flags_dict)} :
       \* components.py 173 and 180
       \E confirmed \in {MapSet(session_state, "flags_confirmed",
                                updated_flags["flags_confirmed"])} :
       /\ dialog' = [dialog EXCEPT !.presses = @ + 1,
                                   !.edited = updated_flags_dict,
                                   !.updated_flags = updated_flags]
       /\ IF DictTruthy(updated_flags)      \* components.py 182: `if updated_flags:`
          THEN /\ store_calls' = Append(store_calls,
                                    [run |-> run_no, by |-> "Confirm",
                                     catalog_guid |-> dialog.catalog_guid,
                                     updates |-> updated_flags, result |-> has_updated])
               /\ IF has_updated
                  THEN /\ shown' = Append(shown, FlagsToast)
                       /\ session_state' = MapSet(confirmed, "flags_dict", updated_flags_dict)
                  ELSE /\ shown' = Append(shown, FlagsWarning)
                       /\ session_state' = confirmed
          ELSE /\ session_state' = confirmed
               /\ UNCHANGED <<store_calls, shown>>

\* the widgets of a run of the session
SessionWidgets ==
    [has_snow_presence : {FALSE}, enable_all : {FALSE},
     confirm_flags : BOOLEAN, confirm_ready : BOOLEAN,
     is_ready_for_products_use : {TRUE}, apply_weights : {TRUE}]

\* Streamlit runs run() again on the next interaction: the locals start
\* anew and the session state stays; the calls of the store are counted per run
Rerun ==
    /\ pc \in RunFinished
    /\ run_no < MaxRuns
    /\ SessionUnchanged
    /\ UNCHANGED session_state
    /\ store_calls' = <<>>
    /\ run_no' = run_no + 1
    /\ pc' = "tab1"
    /\ ui' \in SessionWidgets
    /\ \E guid \in DayRecords(selected.day) :
          selected' = [selected EXCEPT !.catalog_guid = guid]
    /\ default_temporal_resolution' = FALSE
    /\ is_per_image' = FALSE
    /\ qflag_dict' = EmptyMap
    /\ updates' = <<>>
    /\ QFLAG_dict' = EmptyMap
    /\ results' = EmptyMap
    /\ column_name' = ""
    /\ df' = EmptyMap
    /\ iflags_penalties_dict' = <<>>
    /\ shown' = <<>>
    /\ dialog' = DialogClosed

NextSession ==
    DataPrep \/ ClassifyDays \/ ProcessResults \/ AssembleTable
        \/ QualityFlagsConfirm \/ Rerun

InitSession ==
    /\ RunStart
    /\ year = 2024
    /\ rois_list = <<ROI_A>>
    /\ library = [key_order |-> <<"GCC_value", "mean_red", "weights_used">>,
                  zero_sum |-> "zero"]
    /\ day_store = (1 :> [n_ready |-> 2, n_other |-> 0, solar_elevation_class |-> 2,
                          mean_time_resolution |-> [hours |-> 0, minutes |-> 10],
                          zero_weight_rois |-> {}])
    /\ selected \in [day : {1}, catalog_guid : DayRecords(1),
                     solar_elevation_class : {2},
                     meantime_resolution : {[hours |-> 0, minutes |-> 10]}]
    /\ ui \in SessionWidgets
    /\ session_state = (StationName :> EmptyMap)
    /\ flags_yaml = FlagsYaml("penalty_value", TRUE)

SpecSession == InitSession /\ [][NextSession]_vars

(***************************************************************************)
(* The flag frame and its reconciler, utils.py 48-145.                     *)
(* A string is kept as the sequence of its tokens; the tokens are chosen   *)
(* so that none is part of another or of a concatenation of others, and    *)
(* two strings are equal exactly when their token sequences are.  A flag   *)
(* mapping is a function from keys to stored values, a frame is its index, *)
(* its columns and its cells.                                              *)
(***************************************************************************)
MaxEdits == 2           \* cells of the frame the user edits

Separator == "_iflag_"

\* key.split('_iflag_', 1) (utils.py 82): the parts around the first separator
SplitKey(key) ==
    LET i == CHOOSE n \in 1..Len(key) :
                 key[n] = Separator /\ \A j \in 1..(n - 1) : key[j] # Separator
    IN [roi |-> SubSeq(key, 1, i - 1), flag_name |-> SubSeq(key, i + 1, Len(key))]

\* f"{roi}_iflag_{flag_name}" (utils.py 138)
DictKey(roi, flag_name) == roi \o <<Separator>> \o flag_name

\* bool(x) of a cell of a frame: a missing cell is NaN, and bool(NaN) is True
BoolOfCell(cell) == cell.tag = "NaN" \/ Truthy(cell)

\* utils.py 78-97: rows are the flag names, columns the ROIs, a cell is
\* bool(value), and a combination without key is a missing cell
build_flags_dataframe_by_flag(flags_dict) ==
    LET parts == [key \in DOMAIN flags_dict |-> SplitKey(key)] IN
    [index |-> {parts[key].flag_name : key \in DOMAIN flags_dict},
     columns |-> {parts[key].roi : key \in DOMAIN flags_dict},
     at |-> [c \in {parts[key].flag_name : key \in DOMAIN flags_dict}
                     \X {parts[key].roi : key \in DOMAIN flags_dict} |->
                Bool(Truthy(flags_dict[
                    CHOOSE key \in DOMAIN flags_dict : parts[key].flag_name = c[1]]))]]
build_flags_dataframe(flags_dict) ==
    LET parts == [key \in DOMAIN flags_dict |-> SplitKey(key)] IN
    [index |-> {parts[key].flag_name : key \in DOMAIN flags_dict},
     columns |-> {parts[key].roi : key \in DOMAIN flags_dict},
     at |-> [c \in {parts[key].flag_name : key \in DOMAIN flags_dict}
                     \X {parts[key].roi : key \in DOMAIN flags_dict} |->
                IF \E key \in DOMAIN flags_dict :
                       parts[key] = [roi |-> c[2], flag_name |-> c[1]]
                THEN Bool(Truthy(flags_dict[
                        CHOOSE key \in DOMAIN flags_dict :
                            parts[key] = [roi |-> c[2], flag_name |-> c[1]]]))
                ELSE NaN]]

\* the frame after the user toggled the cells of `cells`
EditFrameCells(frame, cells) ==
    [frame EXCEPT !.at = [c \in DOMAIN frame.at |->
                          IF c \in cells THEN Bool(~BoolOfCell(frame.at[c])) ELSE frame.at[c]]]

\* the frame with the row labels the docstrings show: 'flag_<name>'
\* (utils.py 73-75, 124-127)
DocstringLabels(frame) ==
    [index |-> {<<"flag_">> \o name : name \in frame.index},
     columns |-> frame.columns,
     at |-> [c \in {<<"flag_">> \o name : name \in frame.index} \X frame.columns |->
                frame.at[<<Tail(c[1]), c[2]>>]]]

\* utils.py 133-145
dataframe_to_flags_dict_whole(frame, original_dict) ==
    LET cells == {c \in frame.index \X frame.columns : DictKey(c[2], c[1]) \in DOMAIN original_dict}
    IN [key \in {DictKey(c[2], c[1]) : c \in cells} |->
           Bool(BoolOfCell(frame.at[CHOOSE c \in cells : DictKey(c[2], c[1]) = key]))]
dataframe_to_flags_dict(frame, original_dict) ==
    LET cells == {c \in frame.index \X frame.columns :
                     /\ DictKey(c[2], c[1]) \in DOMAIN original_dict
                     /\ BoolOfCell(frame.at[c]) # Truthy(original_dict[DictKey(c[2], c[1])])}
    IN [key \in {DictKey(c[2], c[1]) : c \in cells} |->
           Bool(BoolOfCell(frame.at[CHOOSE c \in cells : DictKey(c[2], c[1]) = key]))]

\* the keys of the flag mappings: two ROIs with two flags, and a key with a
\* second separator
RoiNames == {<<"ROI_01">>, <<"ROI_02">>}
IssueNames == {<<"disable_for_processing">>, <<"shadows">>}
KeyUniverse ==
    {DictKey(roi, name) : roi \in RoiNames, name \in IssueNames}
        \cup {<<"ROI_01", Separator, "shadows", Separator, "haze">>}
OriginalDicts == UNION {[S -> FlagValues] : S \in SUBSET KeyUniverse}

InitFlags ==
    /\ \E X \in OriginalDicts :
          reconciler = [in |-> X, pc |-> "call", df |-> EmptyMap, edits |-> {},
                        labels |-> "built", out |-> EmptyMap]
    /\ RunIdle
    /\ LadderUnused

BuildFrame ==
    /\ reconciler.pc = "call"
    /\ reconciler' = [reconciler EXCEPT !.pc = "built",
                                        !.df = build_flags_dataframe(reconciler.in)]
    /\ UNCHANGED <<ladder, run_vars>>

\* the user edits the frame; the frame may carry the documented row labels
EditFrame ==
    /\ reconciler.pc = "built"
    /\ \E cells \in SUBSET DOMAIN reconciler.df.at, labels \in {"built", "docstring"} :
          /\ Cardinality(cells) <= MaxEdits
          /\ reconciler' =
                [reconciler EXCEPT
                    !.pc = "edited",
                    !.edits = cells,
                    !.labels = labels,
                    !.df = IF labels = "docstring"
                           THEN DocstringLabels(EditFrameCells(reconciler.df, cells))
                           ELSE EditFrameCells(reconciler.df, cells)]
    /\ UNCHANGED <<ladder, run_vars>>

Reconcile ==
    /\ reconciler.pc = "edited"
    /\ reconciler' = [reconciler EXCEPT
                         !.pc = "returned",
                         !.out = dataframe_to_flags_dict(reconciler.df, reconciler.in)]
    /\ UNCHANGED <<ladder, run_vars>>

NextFlags == BuildFrame \/ EditFrame \/ Reconcile

SpecFlags == InitFlags /\ [][NextFlags]_vars

(***************************************************************************)
(* The Day of Year input of the side menu, components.py 108-130.          *)
(* ui holds the widget of the run, session_state['doy'] the day the last   *)
(* run stored; each step is one run of side_menu_options.                  *)
(***************************************************************************)
MaxDoy == 4             \* days of year of a table: 1..MaxDoy
MaxMenuRuns == 3        \* runs of the side menu in a session

\* st.session_state.get(key, default)
SessionGet(key, default) ==
    IF key \in DOMAIN session_state THEN session_state[key] ELSE default

\* components.py 114-119: doys.index(...) of the stored day, min_doy when it
\* is below min_doy or the stored day is not in doys
DoyValue(got, min_doy, max_doy) ==
    IF got \in min_doy..max_doy
    THEN IF got - min_doy < min_doy THEN min_doy ELSE got - min_doy
    ELSE min_doy

\* the parameters that identify the number input between runs
DoyWidget(min_doy, max_doy, value) ==
    [min_value |-> min_doy, max_value |-> max_doy, value |-> value]

\* st.number_input (components.py 121-128): a widget with the parameters of
\* the last run keeps its state, which the user may have changed; a widget
\* with other parameters starts at `value`
NumberInput(widget, entered) ==
    IF "widget" \in DOMAIN ui /\ ui.widget = widget
    THEN IF entered \in widget.min_value..widget.max_value THEN entered ELSE ui.doy
    ELSE widget.value

\* station.get_day_of_year_min_max (components.py 108-110)
DoyRanges == {r \in [min : 1..MaxDoy, max : 1..MaxDoy] : r.min <= r.max}

MenuUnchanged ==
    UNCHANGED <<ladder, reconciler, year, rois_list, day_store, selected, library,
                default_temporal_resolution, is_per_image, qflag_dict, updates,
                QFLAG_dict, results, column_name, df, flags_yaml,
                iflags_penalties_dict, shown, store_calls, dialog>>

\* one run of the Day of Year part of side_menu_options; entered = 0 is a
\* run in which the user leaves the input alone
SideMenuDoy ==
    /\ pc = "menu"
    /\ run_no < MaxMenuRuns
    /\ MenuUnchanged
    /\ \E r \in DoyRanges, entered \in 0..MaxDoy :
       \E got \in {SessionGet("doy", Num(r.min)).v} :
       \E value \in {DoyValue(got, r.min, r.max)} :
       \E _doy \in {NumberInput(DoyWidget(r.min, r.max, value), entered)} :
          /\ ui' = [widget |-> DoyWidget(r.min, r.max, value),
                    had_doy |-> "doy" \in DOMAIN session_state,
                    got |-> got, entered |-> entered, doy |-> _doy]
          /\ session_state' = MapSet(session_state, "doy", Num(_doy))
    /\ run_no' = run_no + 1
    /\ pc' = "menu"

InitMenu ==
    /\ LadderUnused
    /\ ReconcilerUnused
    /\ pc = "menu"
    /\ flags_yaml = <<>>
    /\ iflags_penalties_dict = <<>>
    /\ shown = <<>>
    /\ store_calls = <<>>
    /\ dialog = DialogClosed
    /\ run_no = 0
    /\ year = 0
    /\ rois_list = <<>>
    /\ day_store = EmptyMap
    /\ selected = EmptyMap
    /\ ui = EmptyMap
    /\ library = EmptyMap
    /\ session_state = EmptyMap
    /\ default_temporal_resolution = FALSE
    /\ is_per_image = FALSE
    /\ qflag_dict = EmptyMap
    /\ updates = <<>>
    /\ QFLAG_dict = EmptyMap
    /\ results = EmptyMap
    /\ column_name = ""
    /\ df = EmptyMap

NextMenu == SideMenuDoy

SpecMenu == InitMenu /\ [][NextMenu]_vars

(***************************************************************************)
(* The claims.                                                             *)
(***************************************************************************)
NineCodes == {11, 12, 13, 21, 22, 23, 31, 32, 33}

\* the count tier of n records under boundaries (low, mid)
CountTier(n, low, mid) == IF n < low THEN 1 ELSE IF n < mid THEN 2 ELSE 3

\* C1: for every n_records >= 0, class in {1,2,3} and either value of
\* default_temporal_resolution, exactly one branch of the ladder has its
\* condition hold, it fires, and the QFLAG is 10*tier + class, one of the
\* nine codes.
C1_ExactlyOneBranchAndCode ==
    (ladder.pc # "call" /\ ladder.in.solar_elevation_class \in 1..3) =>
        LET n == ladder.in.n_records
            c == ladder.in.solar_elevation_class
            dtr == ladder.in.default_temporal_resolution
            tier == CountTier(n, IF dtr THEN 3 ELSE 2, IF dtr THEN 6 ELSE 4)
        IN /\ Cardinality(BranchesHolding(n, c, dtr)) = 1
           /\ ladder.pc = "assigned"
           /\ ladder.out.branch \in BranchesHolding(n, c, dtr)
           /\ ladder.out.QFLAG = 10 * tier + c
           /\ ladder.out.QFLAG \in NineCodes

C1_Witness ==
    /\ ladder.pc = "assigned"
    /\ ladder.in.default_temporal_resolution
    /\ ladder.in.n_records = 6
    /\ ladder.out.QFLAG = 33

\* C2: the tier of the code is 1 below the low boundary, 2 from the low to
\* below the mid boundary and 3 from the mid boundary on, with boundaries
\* (3, 6) for the default resolution and (2, 4) otherwise; two records,
\* non-default resolution and class 3 give code 23 with weight 1.0.
C2_TierBoundaries ==
    ladder.pc = "assigned" =>
        LET n == ladder.in.n_records
            dtr == ladder.in.default_temporal_resolution
        IN /\ dtr => ladder.out.QFLAG \div 10 = CountTier(n, 3, 6)
           /\ ~dtr => ladder.out.QFLAG \div 10 = CountTier(n, 2, 4)
           /\ (n = 2 /\ ~dtr /\ ladder.in.solar_elevation_class = 3)
                 => (ladder.out.QFLAG = 23 /\ ladder.out.weight = 100)

C2_Witness ==
    /\ ladder.pc = "assigned"
    /\ ladder.in.n_records = 2
    /\ ~ladder.in.default_temporal_resolution
    /\ ladder.in.solar_elevation_class = 3
    /\ ladder.out.QFLAG = 23

\* the weight table of the claim, in hundredths
TableWeight(tier, c, ipi) ==
    CASE tier = 1 /\ c = 1 -> IF ipi THEN 50 ELSE 10
      [] tier = 1 /\ c = 2 -> 75
      [] tier = 1 /\ c = 3 -> IF ipi THEN 100 ELSE 75
      [] tier = 2 /\ c = 1 -> 50
      [] tier = 2 /\ c = 2 -> 75
      [] tier = 2 /\ c = 3 -> 100
      [] tier = 3 /\ c = 1 -> 75
      [] tier = 3 /\ c = 2 -> 100
      [] tier = 3 /\ c = 3 -> 100

\* C3: the weight the ladder assigns is the one of the fixed table for the
\* tier, the class and is_per_image, and so one of 0.1, 0.5, 0.75, 1.0.
C3_WeightTable ==
    ladder.pc = "assigned" =>
        LET dtr == ladder.in.default_temporal_resolution
            tier == CountTier(ladder.in.n_records, IF dtr THEN 3 ELSE 2,
                              IF dtr THEN 6 ELSE 4)
        IN /\ ladder.out.weight =
                 TableWeight(tier, ladder.in.solar_elevation_class, ladder.in.is_per_image)
           /\ ladder.out.weight \in {10, 50, 75, 100}

C3_Witness ==
    /\ ladder.pc = "assigned"
    /\ ladder.in.is_per_image
    /\ ladder.out.QFLAG = 11
    /\ ladder.out.weight = 50

\* C4: with the other inputs the same, the other value of is_per_image gives
\* the same code; the weights differ for code 11 (0.5 per image, 0.1 per day)
\* and code 13 (1.0 per image, 0.75 per day) and are equal for the other codes.
C4_PerImageSwitch ==
    ladder.pc # "call" =>
        LET ipi == ladder.in.is_per_image
            other == Ladder(ladder.in.n_records, ladder.in.solar_elevation_class,
                            ladder.in.default_temporal_resolution, ~ipi)
            per_image == IF ipi THEN ladder.out.weight ELSE other.weight
            per_day == IF ipi THEN other.weight ELSE ladder.out.weight
        IN /\ other.raised = ladder.out.raised
           /\ other.QFLAG = ladder.out.QFLAG
           /\ ladder.out.QFLAG = 11 => (per_image = 50 /\ per_day = 10)
           /\ ladder.out.QFLAG = 13 => (per_image = 100 /\ per_day = 75)
           /\ ladder.out.QFLAG \notin {11, 13} => per_image = per_day

C4_Witness ==
    /\ ladder.pc = "assigned"
    /\ ladder.in.is_per_image
    /\ ladder.out.QFLAG = 13
    /\ ladder.out.weight = 100

\* the positions of run() after the per-day classification loop
AfterClassification == {"ValueError", "classified", "processed", "done", "KeyError_columns"}

\* C5: a day whose solar elevation class is not 1, 2 or 3 ends the
\* classification with the ValueError, whatever its number of records; no
\* QFLAG code or weight is stored for that day's ROIs, and no table follows.
C5_InvalidClassAborts ==
    pc \in AfterClassification =>
        \A k \in Range(AvailableDays) :
            (day_store[k].solar_elevation_class \notin 1..3 /\ rois_list # <<>>) =>
                /\ pc = "ValueError"
                /\ k \in DOMAIN QFLAG_dict => QFLAG_dict[k] = EmptyMap
                /\ results = EmptyMap
                /\ df = EmptyMap

C5_Witness ==
    /\ pc = "ValueError"
    /\ Cardinality(DOMAIN QFLAG_dict) = 2
    /\ \E k \in DOMAIN QFLAG_dict :
          /\ day_store[k].solar_elevation_class = 4
          /\ day_store[k].n_ready = MaxRecords
          /\ QFLAG_dict[k] = EmptyMap

\* the columns of the table that hold statistics of an ROI
RoiColumns(roi) == {L3Column(roi, key) : key \in LibraryKeys} \cap Range(df.columns)

\* C6: when the combined weights of all contributing records of an ROI on a
\* day are zero, every L3_<roi>_ statistic of that ROI in the day's row of the
\* table is None, never 0.
C6_ZeroWeightsGiveNone ==
    (pc = "done" /\ df.index # <<>>) =>
        \A k \in Range(AvailableDays) :
            \A roi \in day_store[k].zero_weight_rois :
                \A c \in RoiColumns(roi) : TableRow(k)[c] = None

C6_Witness ==
    /\ pc = "done"
    /\ df.index # <<>>
    /\ rois_list = <<ROI_A, ROI_B>>
    /\ library.zero_sum = "zero"
    /\ \E k \in Range(AvailableDays) :
          /\ day_store[k].zero_weight_rois = {ROI_A}
          /\ RoiColumns(ROI_A) # {}
          /\ TableRow(k)[L3Column(ROI_A, "GCC_value")] = None
          /\ TableRow(k)[L3Column(ROI_B, "GCC_value")] = Num(35)

\* the rows of the table are the days 1..N of the year, N by the Gregorian
\* rule, in ascending order, and a day without source records is None in
\* every column but year and day_of_year
OneRowPerCalendarDay ==
    LET N == IF year % 400 = 0 \/ (year % 4 = 0 /\ year % 100 # 0) THEN 366 ELSE 365 IN
    /\ Len(df.index) = N
    /\ \A i \in 1..N :
          /\ df.index[i] = i
          /\ TableRow(i)["day_of_year"] = Num(i)
          /\ TableRow(i)["year"] = StrOf(year)
          /\ i \notin Range(AvailableDays) =>
                \A c \in Range(df.columns) \ {"year", "day_of_year"} : TableRow(i)[c] = None

C8_TemporalResolutionPolicy ==
    pc \in {"tab3", "KeyError_meantime_resolution", "ValueError_compute_qflag"} =>
        LET n == Cardinality(DayRecords(selected.day))
            m == selected.meantime_resolution
        IN (default_temporal_resolution = FALSE) <=>
              (n > 1 /\ (("hours" \in DOMAIN m /\ m["hours"] > 0)
                         \/ ("minutes" \in DOMAIN m /\ m["minutes"] > 30)))

C8_Witness ==
    /\ pc = "tab3"
    /\ Cardinality(DayRecords(selected.day)) > 1
    /\ selected.meantime_resolution = [hours |-> 0, minutes |-> 30]
    /\ default_temporal_resolution = TRUE

\* C9: the default_temporal_resolution of a day's per-day classification, and
\* the tier boundaries it selects, are those the temporal resolution policy
\* gives for the day's records.
C9_PolicyFeedsPerDayTiers ==
    \A k \in DOMAIN QFLAG_dict :
        \A roi \in DOMAIN QFLAG_dict[k] :
            LET n == day_store[k].n_ready
                policy == TemporalResolutionPolicy(n, day_store[k].mean_time_resolution)
                tier == CountTier(n, IF policy THEN 3 ELSE 2, IF policy THEN 6 ELSE 4)
            IN /\ DictGet(QFLAG_dict[k][roi], "QFLAG_default_temporal_resolution")
                     = Bool(policy)
               /\ DictGet(QFLAG_dict[k][roi], "QFLAG_value").v \div 10 = tier

\* C10: the per-image QFLAG of the data-prep tab is computed with
\* is_per_image = True over one record, however many records the day has, so
\* its code is 11, 12 or 13; the per-day classification uses the number of the
\* day's records that are ready for products.
C10_PerImageOneRecord ==
    /\ qflag_dict # EmptyMap =>
          /\ qflag_dict.n_records = 1
          /\ qflag_dict.is_per_image
          /\ qflag_dict.QFLAG \in {11, 12, 13}
    /\ \A k \in DOMAIN QFLAG_dict :
          \A roi \in DOMAIN QFLAG_dict[k] :
              LET dtr == DictGet(QFLAG_dict[k][roi], "QFLAG_default_temporal_resolution").v = 1
              IN DictGet(QFLAG_dict[k][roi], "QFLAG_value").v \div 10
                    = CountTier(day_store[k].n_ready, IF dtr THEN 3 ELSE 2,
                                IF dtr THEN 6 ELSE 4)

C10_Witness ==
    /\ pc = "classified"
    /\ Cardinality(DayRecords(selected.day)) >= 3
    /\ qflag_dict.default_temporal_resolution = FALSE
    /\ qflag_dict.QFLAG = 13
    /\ day_store[1].n_ready = 3
    /\ DictGet(QFLAG_dict[1][ROI_A], "QFLAG_value") = Num(22)

\* C11: with the 'Apply penalties for weighting' toggle off, the table handed
\* to the aggregation has the flag names of the loaded table, in their order,
\* each with its original 'value' and a penalty of 0; with the toggle on it is
\* the loaded table.
C11_PenaltiesToggle ==
    pc \in AfterClassification =>
        /\ ui.apply_weights => iflags_penalties_dict = flags_yaml
        /\ ~ui.apply_weights =>
              /\ Len(iflags_penalties_dict) = Len(flags_yaml)
              /\ \A i \in 1..Len(flags_yaml) :
                    LET entry == iflags_penalties_dict[i].value IN
                    /\ iflags_penalties_dict[i].key = flags_yaml[i].key
                    /\ DictGet(entry, "value") = DictGet(flags_yaml[i].value, "value")
                    /\ \A j \in 1..Len(entry) :
                          entry[j].key # "value" => entry[j].value = Num(0)
                    /\ \E j \in 1..Len(entry) : entry[j].key # "value"

C11_Witness ==
    /\ pc = "classified"
    /\ ~ui.apply_weights
    /\ flags_yaml = FlagsYaml("penalty_value", FALSE)
    /\ Len(iflags_penalties_dict) = 2
    /\ iflags_penalties_dict # flags_yaml

\* the mapping of the marker alone
MarkerOnly == [k \in {"flags_confirmed"} |-> Bool(TRUE)]

\* C12: when Confirm is pressed and the edited flag mapping has the boolean
\* values of the original mapping X, whatever X is, the update mapping is
\* {flags_confirmed: True} and holds no flag.
C12_UneditedGivesMarkerOnly ==
    (dialog.open /\ dialog.presses > 0
        /\ \A k \in DOMAIN dialog.flags_dict :
              Truthy(dialog.edited[k]) = Truthy(dialog.flags_dict[k]))
    => /\ dialog.updated_flags = MarkerOnly
       /\ store_calls # <<>>
       /\ store_calls[Len(store_calls)].updates = MarkerOnly

C12_Witness ==
    /\ dialog.open
    /\ dialog.presses > 0
    /\ dialog.flags_dict = [k \in FlagNames |-> IF k = "flag_haze" THEN None ELSE Bool(TRUE)]
    /\ dialog.edited = [k \in FlagNames |-> Bool(k # "flag_haze")]
    /\ dialog.updated_flags = MarkerOnly

\* the classification values of the data-prep tab are those it computed
ClassificationKept ==
    /\ pc \in {"tab3", "classified", "processed", "done"}
    /\ qflag_dict # EmptyMap
    /\ SubSeq(updates, 1, 6) =
          Append(UpdatesBeforeMeantime(ui.has_snow_presence,
                                       selected.solar_elevation_class, qflag_dict),
                 [key |-> "meantime_resolution",
                  value |-> Text(MeantimeString(selected.meantime_resolution))])

\* C15 as stated: whenever the store answers false, a warning is shown, no
\* error is raised and the classification values stay.
C15_Original ==
    \A i \in 1..Len(store_calls) :
        ~store_calls[i].result =>
            /\ \E j \in 1..Len(shown) : shown[j].kind = "warning"
            /\ ClassificationKept

\* C15 amended: whenever the store answers false, the run tells the user (the
\* warning 'Flags not updated' after Confirm, the toast 'updates saved: False'
\* after SAVE Record), raises no error and the classification values stay.
C15_FailureShownAndValuesKept ==
    \A i \in 1..Len(store_calls) :
        ~store_calls[i].result =>
            /\ store_calls[i].by = "Confirm" => FlagsWarning \in Range(shown)
            /\ store_calls[i].by = "SAVE Record" =>
                  [kind |-> "toast", text |-> "updates saved: False"] \in Range(shown)
            /\ ClassificationKept

C15_Witness ==
    /\ pc = "done"
    /\ Len(store_calls) = 2
    /\ ~store_calls[1].result /\ store_calls[1].by = "SAVE Record"
    /\ ~store_calls[2].result /\ store_calls[2].by = "Confirm"
    /\ Len(shown) = 3

\* the store calls of the run are those of the pressed buttons, for the
\* selected record
StoreCallsOfButtons ==
    /\ \A i \in 1..Len(store_calls) :
          /\ store_calls[i].run = run_no
          /\ store_calls[i].catalog_guid = selected.catalog_guid
          /\ store_calls[i].by \in {"SAVE Record", "Confirm"}
          /\ store_calls[i].by = "SAVE Record" => ui.confirm_ready
          /\ store_calls[i].by = "Confirm" => (ui.confirm_flags /\ dialog.presses > 0)
    /\ Cardinality({i \in 1..Len(store_calls) : store_calls[i].by = "SAVE Record"}) <= 1
    /\ Cardinality({i \in 1..Len(store_calls) : store_calls[i].by = "Confirm"})
          = (IF dialog.open THEN dialog.presses ELSE 0)
    /\ (~ui.confirm_ready /\ ~ui.confirm_flags) => store_calls = <<>>

\* C16: in every run of a session the store's update is called only when
\* SAVE Record or Confirm was pressed in that run, and for the selected
\* catalog_guid; a run that only displays a record calls it never, and no step
\* of the Time Series tab calls it.
C16_StoreWritesOnlyOnButtons ==
    /\ []StoreCallsOfButtons
    /\ [][(pc \in {"tab3", "classified", "processed"}) => (store_calls' = store_calls)]_vars

C16_Witness ==
    /\ run_no = 2
    /\ selected.catalog_guid = 2
    /\ pc = "done"
    /\ Len(store_calls) = 2
    /\ store_calls[2].by = "Confirm"
    /\ store_calls[2].catalog_guid = 2

\* C17: a mean time resolution without hours or without minutes is treated
\* as a single observation (default temporal resolution) and the data-prep
\* tab completes the per-image classification and the updates mapping.
C17_MissingGapDegrades ==
    (pc # "tab1" /\ DayRecords(selected.day) # {}
        /\ StationName \in DOMAIN session_state
        /\ selected.solar_elevation_class \in 1..3
        /\ ~({"hours", "minutes"} \subseteq DOMAIN selected.meantime_resolution))
    => /\ pc \notin {"KeyError_meantime_resolution"}
       /\ qflag_dict # EmptyMap
       /\ qflag_dict.default_temporal_resolution
       /\ "meantime_resolution" \in DictKeys(updates)

\* C18: the TIME RESOLUTION text is the hours and the minutes of the mean
\* gap, the two fields of the stored meantime_resolution 'HH:MM:00'.
C18_TimeResolutionText ==
    (shown # <<>> /\ shown[1].kind = "write") =>
        DictGet(updates, "meantime_resolution").s = shown[1].text \o ":00"

\* C20: when GCC_value of an ROI is 0 on a day, the row of the day keeps the
\* QFLAG columns the last ROI stored and the statistics of every other ROI.
C20_NullingTouchesOwnColumnsOnly ==
    (pc = "done" /\ df.index # <<>>) =>
        \A k \in Range(AvailableDays) :
            (library.zero_sum = "zero" /\ day_store[k].zero_weight_rois # {}) =>
                /\ \A c \in {"QFLAG_value", "QFLAG_default_temporal_resolution",
                             "QFLAG_is_per_image"} :
                      TableRow(k)[c] = DictGet(QFLAG_dict[k][rois_list[Len(rois_list)]], c)
                /\ \A roi \in Range(rois_list) \ day_store[k].zero_weight_rois :
                      \A key \in StatKeys :
                          TableRow(k)[L3Column(roi, key)] = DictGet(results[k][roi], key)

\* the cells of the frame handed to the reconciler whose key is in the
\* original mapping and whose boolean value differs from the original's
DifferingCells ==
    {c \in reconciler.df.index \X reconciler.df.columns :
        /\ DictKey(c[2], c[1]) \in DOMAIN reconciler.in
        /\ BoolOfCell(reconciler.df.at[c]) # Truthy(reconciler.in[DictKey(c[2], c[1])])}

C14_UneditedRoundTripIsEmpty ==
    (reconciler.pc = "returned" /\ reconciler.edits = {} /\ reconciler.labels = "built")
        => DOMAIN reconciler.out = {}

\* an unedited frame with a missing cell, made from a mapping that stores
\* None, False and True
C14_Witness ==
    /\ reconciler.pc = "returned"
    /\ reconciler.edits = {}
    /\ reconciler.labels = "built"
    /\ \E c \in DOMAIN reconciler.df.at : reconciler.df.at[c] = NaN
    /\ \A v \in FlagValues : \E key \in DOMAIN reconciler.in : reconciler.in[key] = v

\* the example of the docstring of dataframe_to_flags_dict (utils.py 116-131)
DocstringOriginal ==
    [key \in {DictKey(roi, name) : roi \in RoiNames, name \in IssueNames} |->
        Bool(SplitKey(key).roi = <<"ROI_02">>)]
DocstringExample ==
    /\ reconciler.pc = "returned"
    /\ reconciler.in = DocstringOriginal
    /\ reconciler.labels = "docstring"
    /\ reconciler.df.index = {<<"flag_", "disable_for_processing">>, <<"flag_", "shadows">>}
    /\ \A roi \in RoiNames :
          /\ reconciler.df.at[<<<<"flag_", "disable_for_processing">>, roi>>] = Bool(TRUE)
          /\ reconciler.df.at[<<<<"flag_", "shadows">>, roi>>] = Bool(FALSE)

\* C19: row labels of the documented form 'flag_<name>' are mapped onto the
\* original keys '<ROI>_iflag_<name>': for the docstring example the result is
\* {'ROI_01_iflag_disable_for_processing': True}.
C19_DocstringExampleResult ==
    DocstringExample =>
        /\ DOMAIN reconciler.out = {DictKey(<<"ROI_01">>, <<"disable_for_processing">>)}
        /\ \A key \in DOMAIN reconciler.out : reconciler.out[key] = Bool(TRUE)

\* C21: all ROIs of a day receive the identical QFLAG result (value, weight,
\* default_temporal_resolution, is_per_image), and the QFLAG_value in the
\* day's row of the table is that of every ROI, whichever is stored last.
C21_SameQFLAGForAllRois ==
    /\ (pc \in {"classified", "processed", "done"}) =>
          \A k \in DOMAIN QFLAG_dict :
              \A r1 \in DOMAIN QFLAG_dict[k], r2 \in DOMAIN QFLAG_dict[k] :
                  QFLAG_dict[k][r1] = QFLAG_dict[k][r2]
    /\ (pc = "done" /\ df.index # <<>>) =>
          \A k \in Range(AvailableDays) :
              \A roi \in Range(rois_list) :
                  TableRow(k)["QFLAG_value"] = DictGet(QFLAG_dict[k][roi], "QFLAG_value")

\* a finished table for two ROIs, with a day on which the first ROI's
\* statistics were set to None after the QFLAG columns were stored
C21_Witness ==
    /\ pc = "done"
    /\ df.index # <<>>
    /\ rois_list = <<ROI_A, ROI_B>>
    /\ \E k \in Range(AvailableDays) :
          /\ day_store[k].zero_weight_rois = {ROI_A}
          /\ library.zero_sum = "zero"
          /\ TableRow(k)["QFLAG_value"].tag = "num"

\* a step in which Confirm is pressed in the open dialog
ConfirmPressed ==
    dialog.open /\ dialog'.open /\ dialog'.presses = dialog.presses + 1

\* C22: every press of Confirm makes exactly one update-by-identifier call to
\* the store, for the record of the dialog, with a mapping that contains
\* flags_confirmed = True, also when no flag value was changed.
C22_ConfirmCallsStoreOnce ==
    [][ConfirmPressed =>
          /\ Len(store_calls') = Len(store_calls) + 1
          /\ SubSeq(store_calls', 1, Len(store_calls)) = store_calls
          /\ store_calls'[Len(store_calls')].by = "Confirm"
          /\ store_calls'[Len(store_calls')].catalog_guid = dialog.catalog_guid
          /\ "flags_confirmed" \in DOMAIN store_calls'[Len(store_calls')].updates
          /\ store_calls'[Len(store_calls')].updates["flags_confirmed"] = Bool(TRUE)]_vars

\* Confirm was pressed without a changed flag, and the store was called with
\* the marker alone and refused
C22_Witness ==
    /\ dialog.open
    /\ dialog.presses = 1
    /\ DOMAIN dialog.flags_dict # {}
    /\ dialog.edited = StatusColumn(dialog.flags_dict)
    /\ store_calls # <<>>
    /\ store_calls[Len(store_calls)].by = "Confirm"
    /\ DOMAIN store_calls[Len(store_calls)].updates = {"flags_confirmed"}
    /\ ~store_calls[Len(store_calls)].result

\* the flags_confirmed value the store holds for the record of the open
\* dialog: the value read at the opening (components.py 173), or True once an
\* update call of the dialog has succeeded (components.py 178, 183)
StoredFlagsConfirmed ==
    IF \E i \in 1..Len(store_calls) :
           /\ store_calls[i].by = "Confirm"
           /\ store_calls[i].catalog_guid = dialog.catalog_guid
           /\ store_calls[i].result
    THEN Bool(TRUE)
    ELSE Bool(dialog.flags_confirmed)

\* a step that replaces session_state['flags_dict']
FlagsDictReplaced ==
    /\ "flags_dict" \in DOMAIN session_state'
    /\ \/ "flags_dict" \notin DOMAIN session_state
       \/ session_state'["flags_dict"] # session_state["flags_dict"]

\* C23: while the dialog is open, session_state['flags_confirmed'] is the
\* flags_confirmed value the store holds for the record, also after a Confirm
\* whose update call returned false; and session_state['flags_dict'] is
\* replaced by the edited mapping only when the store returned true.
C23_SessionAgreesWithStore ==
    /\ [](dialog.open => session_state["flags_confirmed"] = StoredFlagsConfirmed)
    /\ [][FlagsDictReplaced =>
             /\ ConfirmPressed
             /\ store_calls'[Len(store_calls')].result
             /\ session_state'["flags_dict"] = dialog'.edited]_vars

\* the state after a Confirm that the store refused, for a record whose
\* flags were not confirmed before
C23_RefusedConfirm ==
    /\ dialog.open
    /\ dialog.presses = 1
    /\ ~dialog.flags_confirmed
    /\ store_calls # <<>>
    /\ store_calls[Len(store_calls)].by = "Confirm"
    /\ ~store_calls[Len(store_calls)].result

\* a run of the side menu that found a day of the table's range in the
\* session state
MenuRanWithStoredDay ==
    /\ pc = "menu"
    /\ run_no > 0
    /\ ui.had_doy
    /\ ui.got \in ui.widget.min_value..ui.widget.max_value

\* C24: when the session state holds a day of year d with
\* min_doy <= d <= max_doy, the Day of Year input is initialised to d, and a
\* run in which the user leaves the input alone keeps the selected day; the
\* initial value always lies in [min_doy, max_doy].
C24_DoyInputKeepsStoredDay ==
    /\ [](MenuRanWithStoredDay => ui.widget.value = ui.got)
    /\ []((pc = "menu" /\ run_no > 0) =>
             ui.widget.value \in ui.widget.min_value..ui.widget.max_value)
    /\ [][(pc = "menu" /\ pc' = "menu" /\ ui'.had_doy /\ ui'.entered = 0
             /\ ui'.got \in ui'.widget.min_value..ui'.widget.max_value)
          => (session_state'["doy"] = session_state["doy"])]_vars

\* the stored day is above min_doy, and the run after it is one in which the
\* user leaves the input alone
C24_StoredDayAboveMin ==
    /\ MenuRanWithStoredDay
    /\ ui.got > ui.widget.min_value
    /\ ui.entered = 0

\* C25: every session-state key read by subscript has been written before;
\* the key named by the station's name exists when app.py 270 reads it, so
\* a run for a day with records reaches the QFLAG computation.
C25_SubscriptKeysWritten ==
    /\ pc # "KeyError_station_name"
    /\ (pc # "tab1" /\ DayRecords(selected.day) # {}) =>
          (qflag_dict # EmptyMap \/ pc = "ValueError_compute_qflag")

\* the first run of a session, for a day with records, has ended
C25_FirstRunWithRecords ==
    /\ pc # "tab1"
    /\ DayRecords(selected.day) # {}
    /\ DOMAIN session_state = SideMenuKeys

====
